---- MODULE Spec2Model ----
(***************************************************************************)
(* CHROMA colour-matching game: the App component (full variant,           *)
(* src/unnamed/part_000) as a state machine.  Every action is one browser  *)
(* event (a click, a keystroke, a timer firing) followed by the React      *)
(* renders and effects it causes, run until nothing changes any more.      *)
(*                                                                         *)
(* Strings are sequences of one-character strings; an optional value       *)
(* (string | null, Color | null) is a sequence of length at most one.      *)
(***************************************************************************)
EXTENDS Integers, Sequences, FiniteSets, TLC

\* ------------------------------------------------------------- bounds
\* handleSubmit calls per session (caps the length of history)
MaxSubmits == 2
\* delayed round resets (setTimeout callbacks) in flight at once
MaxPending == 2
\* submits per session while both variants run side by side
MaxPairSubmits == 1

\* ------------------------------------------------------------ strings
None == <<>>
Some(x) == <<x>>

\* The value parseInt / parseFloat return for text that is no number.
NaN == -1000000
isNaN(x) == x = NaN

DecimalDigits == <<"0", "1", "2", "3", "4", "5", "6", "7", "8", "9">>
LowerDigits == DecimalDigits \o <<"a", "b", "c", "d", "e", "f">>
UpperDigits == DecimalDigits \o <<"A", "B", "C", "D", "E", "F">>

\* Value of a digit character in bases up to 16; 16 for any other character.
DigitValue(c) ==
  IF \E i \in 1..16 : LowerDigits[i] = c
  THEN (CHOOSE i \in 1..16 : LowerDigits[i] = c) - 1
  ELSE IF \E i \in 1..16 : UpperDigits[i] = c
       THEN (CHOOSE i \in 1..16 : UpperDigits[i] = c) - 1
       ELSE 16

IsSpace(c) == c = " "

RECURSIVE TrimStart(_)
TrimStart(s) == IF s # <<>> /\ IsSpace(Head(s)) THEN TrimStart(Tail(s)) ELSE s

RECURSIVE TrimEnd(_)
TrimEnd(s) ==
  IF s # <<>> /\ IsSpace(s[Len(s)]) THEN TrimEnd(SubSeq(s, 1, Len(s) - 1)) ELSE s

\* String.prototype.trim
trim(s) == TrimEnd(TrimStart(s))

\* String.prototype.replace(c, ''): removes the first occurrence of c only.
RECURSIVE replaceFirst(_, _)
replaceFirst(s, c) ==
  IF s = <<>> THEN <<>>
  ELSE IF Head(s) = c THEN Tail(s)
  ELSE <<Head(s)>> \o replaceFirst(Tail(s), c)

\* Longest run of digits of the radix at the front of s: <<value, digits read>>.
RECURSIVE ReadDigits(_, _, _, _)
ReadDigits(s, radix, acc, n) ==
  IF s # <<>> /\ DigitValue(Head(s)) < radix
  THEN ReadDigits(Tail(s), radix, acc * radix + DigitValue(Head(s)), n + 1)
  ELSE <<acc, n>>

\* parseInt(s, radix): leading white space skipped, an optional sign, for
\* radix 16 an optional 0x, then the longest digit prefix; NaN without one.
parseInt(s, radix) ==
  LET t == TrimStart(s)
      neg == t # <<>> /\ Head(t) = "-"
      u == IF t # <<>> /\ Head(t) \in {"-", "+"} THEN Tail(t) ELSE t
      v == IF radix = 16 /\ Len(u) >= 2 /\ u[1] = "0" /\ u[2] \in {"x", "X"}
           THEN SubSeq(u, 3, Len(u)) ELSE u
      d == ReadDigits(v, radix, 0, 0)
  IN IF d[2] = 0 THEN NaN ELSE IF neg THEN 0 - d[1] ELSE d[1]

\* Decimal digits of a natural number.
RECURSIVE NatString(_)
NatString(n) ==
  IF n < 10 THEN <<DecimalDigits[n + 1]>>
  ELSE NatString(n \div 10) \o <<DecimalDigits[(n % 10) + 1]>>

\* Number.prototype.toString(radix) and String(n) of an integer.
RECURSIVE NatStringRadix(_, _)
NatStringRadix(n, radix) ==
  IF n < radix THEN <<LowerDigits[n + 1]>>
  ELSE NatStringRadix(n \div radix, radix) \o <<LowerDigits[(n % radix) + 1]>>

toString(n, radix) ==
  IF isNaN(n) THEN <<"N", "a", "N">>
  ELSE IF n < 0 THEN <<"-">> \o NatStringRadix(0 - n, radix)
  ELSE NatStringRadix(n, radix)

toUpperCase(s) ==
  [i \in 1..Len(s) |->
     IF \E k \in 11..16 : LowerDigits[k] = s[i]
     THEN UpperDigits[CHOOSE k \in 11..16 : LowerDigits[k] = s[i]]
     ELSE s[i]]

\* String(b) of a boolean.
BoolString(b) == IF b THEN <<"t", "r", "u", "e">> ELSE <<"f", "a", "l", "s", "e">>

\* ------------------------------------------------------------- colours
Color(r, g, b) == [r |-> r, g |-> g, b |-> b]
Black == Color(0, 0, 0)

\* The squared distance with the blue channel left out.
Dist2NoBlue(target, current) ==
  (target.r - current.r) * (target.r - current.r)
  + (target.g - current.g) * (target.g - current.g)

\* Squared Euclidean distance of two colours, and of black and white.
Dist2(target, current) ==
  (target.r - current.r) * (target.r - current.r)
  + (target.g - current.g) * (target.g - current.g)
  + (target.b - current.b) * (target.b - current.b)
MaxDist2 == 255 * 255 + 255 * 255 + 255 * 255

\* The sign of MaxDist2 * n - 25 * s * d, for 0 <= n and 0 < s, computed
\* without leaving 32 bits: with n = a * s + b the difference is
\* 25 * s * ((MaxDist2 \div 25) * a - d) + (MaxDist2 \div 25) * b.
ScaledDiff(n, d, s) ==
  LET c == MaxDist2 \div 25
      e == d - c * (n \div s)
  IN IF e < 0 THEN 1 ELSE IF e >= c THEN -1 ELSE c * (n % s) - s * e

\* calculateStats(target, current).similarity > th10 / 1000, where
\* similarity = max(0, 1 - dist / maxDist) and th10 is the threshold in
\* tenths of a percent: decided exactly on the squares,
\* 1000000 * dist^2 < maxDist^2 * (1000 - th10)^2.
SimilarityExceeds(target, current, th10) ==
  \/ th10 < 0
  \/ /\ th10 < 1000
     /\ ScaledDiff((1000 - th10) * (1000 - th10), Dist2(target, current), 40000) > 0

\* calculateStats(target, current).similarity >= th10 / 1000.
SimilarityAtLeast(target, current, th10) ==
  \/ th10 <= 0
  \/ /\ th10 <= 1000
     /\ ScaledDiff((1000 - th10) * (1000 - th10), Dist2(target, current), 40000) >= 0

\* (similarity * 100).toFixed(1), as a number of tenths of a percent: 1000 - q
\* for the least q with q + 1/2 >= 1000 * dist / maxDist.
PercentageTenths(target, current) ==
  LET d == Dist2(target, current)
      far(q) == ScaledDiff((2 * q + 1) * (2 * q + 1), d, 160000) >= 0
      q == IF d >= MaxDist2 THEN 1000
           ELSE CHOOSE k \in 0..1000 : far(k) /\ (k = 0 \/ ~far(k - 1))
  IN 1000 - q

\* `${percentage}%`
percentage(target, current) ==
  LET p == PercentageTenths(target, current)
  IN NatString(p \div 10) \o <<".">> \o NatString(p % 10) \o <<"%">>

\* hexToRgb: Some(colour) or None for null.
hexToRgb(hex) ==
  LET cleanHex == trim(replaceFirst(hex, "#"))
      six == Color(parseInt(SubSeq(cleanHex, 1, 2), 16),
                   parseInt(SubSeq(cleanHex, 3, 4), 16),
                   parseInt(SubSeq(cleanHex, 5, 6), 16))
      three == Color(parseInt(<<cleanHex[1], cleanHex[1]>>, 16),
                     parseInt(<<cleanHex[2], cleanHex[2]>>, 16),
                     parseInt(<<cleanHex[3], cleanHex[3]>>, 16))
      ok(c) == ~isNaN(c.r) /\ ~isNaN(c.g) /\ ~isNaN(c.b)
  IN IF Len(cleanHex) = 6 /\ ok(six) THEN Some(six)
     ELSE IF Len(cleanHex) = 3 /\ ok(three) THEN Some(three)
     ELSE None

\* rgbToHex without the zero in front of a one-digit channel.
rgbToHexNoPad(r, g, b) ==
  <<"#">> \o toUpperCase(toString(r, 16) \o toString(g, 16) \o toString(b, 16))

\* rgbToHex
rgbToHex(r, g, b) ==
  LET two(x) == LET hex == toString(x, 16)
                IN IF Len(hex) = 1 THEN <<"0">> \o hex ELSE hex
  IN <<"#">> \o toUpperCase(two(r) \o two(g) \o two(b))

\* parseFloat(s), in tenths: leading white space skipped, an optional sign,
\* digits, and after a "." the first fractional digit (the threshold input
\* steps by 0.1, line 331); NaN when no digit is read.
parseFloat(s) ==
  LET t == TrimStart(s)
      neg == t # <<>> /\ Head(t) = "-"
      u == IF t # <<>> /\ Head(t) \in {"-", "+"} THEN Tail(t) ELSE t
      d == ReadDigits(u, 10, 0, 0)
      rest == SubSeq(u, d[2] + 1, Len(u))
      f == IF rest # <<>> /\ Head(rest) = "."
           THEN ReadDigits(SubSeq(rest, 2, IF Len(rest) >= 2 THEN 2 ELSE 1), 10, 0, 0)
           ELSE <<0, 0>>
      val == d[1] * 10 + f[1]
  IN IF d[2] + f[2] = 0 THEN NaN ELSE IF neg THEN 0 - val ELSE val

\* String(x) of a number held in tenths.
FloatString(x) ==
  IF isNaN(x) THEN <<"N", "a", "N">>
  ELSE LET m == IF x < 0 THEN 0 - x ELSE x
           whole == NatString(m \div 10)
           body == IF m % 10 = 0 THEN whole ELSE whole \o <<".">> \o NatString(m % 10)
       IN IF x < 0 THEN <<"-">> \o body ELSE body

\* a > b on numbers: false when either is NaN.
Gt(a, b) == ~isNaN(a) /\ ~isNaN(b) /\ a > b

\* -------------------------------------------------------------- state
VARIABLES
  gameState,        \* 'MENU' | 'PLAYING' | 'GAME_OVER'
  score,
  tempThreshold,    \* text of the threshold input
  showSettings,
  blindMode,
  strictMode,
  scoreThreshold,   \* in tenths of a percent (90 is 900)
  timerDuration,
  timeLeft,
  targetColor,
  userColor,
  hexInputValue,
  isEditingHex,
  isResettingRef,   \* isResettingRef.current
  highScore,
  history,
  hasLostFocus,
  lastScore,        \* None for null
  localStorage,     \* key -> None | Some(text)
  pendingResets,    \* setTimeout callbacks of handleSubmit not yet run
  timerActive,      \* the setInterval of the timer effect is installed
  minimal,          \* the minimal variant's component, run beside the full one
  \* history variables of the verification, read by no operation
  submitCalls,      \* handleSubmit calls since the last startGame
  cleanTicks,       \* Some(ticks since startGame) until a scoring submit or a timer edit
  strictLost,       \* focus was lost this session while strict mode was on
  bestAllowed,      \* highest committable score held since the last confirmed reset
  bestAllowedEver   \* highest committable score ever held

appVars == <<gameState, score, tempThreshold, showSettings, blindMode, strictMode,
             scoreThreshold, timerDuration, timeLeft, targetColor, userColor,
             hexInputValue, isEditingHex, isResettingRef, highScore, history,
             hasLostFocus, lastScore, localStorage, pendingResets, timerActive>>
eventGhosts == <<submitCalls, cleanTicks, strictLost>>
ghostVars == <<eventGhosts, bestAllowed, bestAllowedEver>>
vars == <<appVars, minimal, ghostVars>>

\* The component's state as one record; userColorSet says that setUserColor
\* was called with a new object since the last render.
App ==
  [gameState |-> gameState, score |-> score, tempThreshold |-> tempThreshold,
   showSettings |-> showSettings, blindMode |-> blindMode, strictMode |-> strictMode,
   scoreThreshold |-> scoreThreshold, timerDuration |-> timerDuration,
   timeLeft |-> timeLeft, targetColor |-> targetColor, userColor |-> userColor,
   hexInputValue |-> hexInputValue, isEditingHex |-> isEditingHex,
   isResettingRef |-> isResettingRef, highScore |-> highScore, history |-> history,
   hasLostFocus |-> hasLostFocus, lastScore |-> lastScore,
   localStorage |-> localStorage, pendingResets |-> pendingResets,
   timerActive |-> timerActive, userColorSet |-> FALSE]

StorageKeys ==
  {"chroma_blind_mode", "chroma_strict_mode", "chroma_score_threshold",
   "chroma_timer_duration", "chroma_high_score"}

\* ------------------------------------------------------------ effects
\* An effect reads the values of the render it belongs to (s), runs when one
\* of its dependencies differs from the previous render (p) or on mount
\* (first), and leaves its writes in a.

\* The five "Persist settings" effects with empty dependency lists: they run
\* on mount only.
persistEffectsOnMount(p, s, first, a) ==
  IF first
  THEN [a EXCEPT !.localStorage =
          [k \in StorageKeys |->
             Some(CASE k = "chroma_blind_mode" -> BoolString(s.blindMode)
                    [] k = "chroma_strict_mode" -> BoolString(s.strictMode)
                    [] k = "chroma_score_threshold" -> FloatString(s.scoreThreshold)
                    [] k = "chroma_timer_duration" -> toString(s.timerDuration, 10)
                    [] k = "chroma_high_score" -> toString(s.highScore, 10))]]
  ELSE a

\* The five "Persist settings" effects.
persistEffects(p, s, first, a) ==
  LET put(store, changed, key, text) ==
        IF first \/ changed THEN [store EXCEPT ![key] = Some(text)] ELSE store
      s1 == put(a.localStorage, p.blindMode # s.blindMode,
                "chroma_blind_mode", BoolString(s.blindMode))
      s2 == put(s1, p.strictMode # s.strictMode,
                "chroma_strict_mode", BoolString(s.strictMode))
      s3 == put(s2, p.scoreThreshold # s.scoreThreshold,
                "chroma_score_threshold", FloatString(s.scoreThreshold))
      s4 == put(s3, p.timerDuration # s.timerDuration,
                "chroma_timer_duration", toString(s.timerDuration, 10))
      s5 == put(s4, p.highScore # s.highScore,
                "chroma_high_score", toString(s.highScore, 10))
  IN [a EXCEPT !.localStorage = s5]

\* "Update high score in real-time", with every commit allowed.
highScoreEffectAlways(p, s, first, a) ==
  IF /\ first \/ p.score # s.score \/ p.highScore # s.highScore
              \/ p.hasLostFocus # s.hasLostFocus \/ p.strictMode # s.strictMode
     /\ Gt(s.score, s.highScore)
  THEN [a EXCEPT !.highScore = s.score]
  ELSE a

\* "Update high score in real-time", committing only while focus was kept.
highScoreEffectFocusOnly(p, s, first, a) ==
  IF /\ first \/ p.score # s.score \/ p.highScore # s.highScore
              \/ p.hasLostFocus # s.hasLostFocus \/ p.strictMode # s.strictMode
     /\ Gt(s.score, s.highScore)
     /\ ~s.hasLostFocus
  THEN [a EXCEPT !.highScore = s.score]
  ELSE a

\* "Update high score in real-time"
highScoreEffect(p, s, first, a) ==
  IF /\ first \/ p.score # s.score \/ p.highScore # s.highScore
              \/ p.hasLostFocus # s.hasLostFocus \/ p.strictMode # s.strictMode
     /\ Gt(s.score, s.highScore)
     /\ (~s.hasLostFocus \/ ~s.strictMode)
  THEN [a EXCEPT !.highScore = s.score]
  ELSE a

\* "Sync hex input from userColor when not editing" without the
\* isResettingRef test.
hexSyncEffectNoFlag(p, s, first, a) ==
  IF ~(first \/ s.userColorSet \/ p.isEditingHex # s.isEditingHex) THEN a
  ELSE IF ~s.isEditingHex
  THEN [a EXCEPT !.hexInputValue = rgbToHex(s.userColor.r, s.userColor.g, s.userColor.b)]
  ELSE a

\* "Sync hex input from userColor" without the isEditingHex test.
hexSyncEffectWhileEditing(p, s, first, a) ==
  IF ~(first \/ s.userColorSet \/ p.isEditingHex # s.isEditingHex) THEN a
  ELSE IF a.isResettingRef THEN [a EXCEPT !.isResettingRef = FALSE]
  ELSE [a EXCEPT !.hexInputValue = rgbToHex(s.userColor.r, s.userColor.g, s.userColor.b)]

\* "Sync hex input from userColor when not editing" with userColor missing
\* from the dependencies.
hexSyncEffectNoColorDep(p, s, first, a) ==
  IF ~(first \/ p.isEditingHex # s.isEditingHex) THEN a
  ELSE IF a.isResettingRef THEN [a EXCEPT !.isResettingRef = FALSE]
  ELSE IF ~s.isEditingHex
  THEN [a EXCEPT !.hexInputValue = rgbToHex(s.userColor.r, s.userColor.g, s.userColor.b)]
  ELSE a

\* "Sync hex input from userColor when not editing"
hexSyncEffect(p, s, first, a) ==
  IF ~(first \/ s.userColorSet \/ p.isEditingHex # s.isEditingHex) THEN a
  ELSE IF a.isResettingRef THEN [a EXCEPT !.isResettingRef = FALSE]
  ELSE IF ~s.isEditingHex
  THEN [a EXCEPT !.hexInputValue = rgbToHex(s.userColor.r, s.userColor.g, s.userColor.b)]
  ELSE a

\* The timer effect that never clears its interval.
timerEffectNoCleanup(p, s, first, a) ==
  IF ~(first \/ p.gameState # s.gameState \/ p.timeLeft # s.timeLeft
             \/ p.timerDuration # s.timerDuration) THEN a
  ELSE IF s.gameState = "PLAYING" /\ s.timeLeft > 0 /\ s.timerDuration > 0
  THEN [a EXCEPT !.timerActive = TRUE]
  ELSE IF s.timeLeft <= 0 /\ s.gameState = "PLAYING" /\ s.timerDuration > 0
  THEN [a EXCEPT !.gameState = "GAME_OVER"]
  ELSE a

\* The timer effect that ends the game at 0 in infinite mode too.
timerEffectNoInfinite(p, s, first, a) ==
  IF ~(first \/ p.gameState # s.gameState \/ p.timeLeft # s.timeLeft
             \/ p.timerDuration # s.timerDuration) THEN a
  ELSE IF s.gameState = "PLAYING" /\ s.timeLeft > 0
  THEN [a EXCEPT !.timerActive = TRUE]
  ELSE IF s.timeLeft <= 0 /\ s.gameState = "PLAYING"
  THEN [a EXCEPT !.timerActive = FALSE, !.gameState = "GAME_OVER"]
  ELSE [a EXCEPT !.timerActive = FALSE]

\* The timer effect: its cleanup clears the interval of the previous run,
\* then it installs a new one or ends the game.
timerEffect(p, s, first, a) ==
  IF ~(first \/ p.gameState # s.gameState \/ p.timeLeft # s.timeLeft
             \/ p.timerDuration # s.timerDuration) THEN a
  ELSE IF s.gameState = "PLAYING" /\ s.timeLeft > 0 /\ s.timerDuration > 0
  THEN [a EXCEPT !.timerActive = TRUE]
  ELSE IF s.timeLeft <= 0 /\ s.gameState = "PLAYING" /\ s.timerDuration > 0
  THEN [a EXCEPT !.timerActive = FALSE, !.gameState = "GAME_OVER"]
  ELSE [a EXCEPT !.timerActive = FALSE]

\* One render of s after the render of p: the effects in the order the
\* component declares them; the state they set is rendered in turn.
RECURSIVE Render(_, _, _)
Render(p, s, first) ==
  LET a0 == [s EXCEPT !.userColorSet = FALSE]
      a1 == persistEffects(p, s, first, a0)
      a2 == highScoreEffect(p, s, first, a1)
      a3 == hexSyncEffect(p, s, first, a2)
      a4 == timerEffect(p, s, first, a3)
  IN IF /\ a4.highScore = s.highScore
        /\ a4.hexInputValue = s.hexInputValue
        /\ a4.gameState = s.gameState
     THEN a4
     ELSE Render(s, a4, FALSE)

\* ----------------------------------------------------------- handlers
\* generateRandomColor draws from these; sliders, the hex field, the threshold
\* field and the timer field receive these inputs.
\* From black, Grey is exactly at the distance that scores 80%, Near just inside.
Grey == Color(51, 51, 51)
Near == Color(50, 50, 50)
RandomColors == {Near, Grey}
SliderInputs == {<<"r", 51>>, <<"r", 0>>}
\* Hex texts: the bare "#", a valid short form, a text with a non-hex digit.
HexTexts == {<<"#">>, <<"#", "3", "3", "3">>, <<"#", "3", "g", "3">>}
\* Threshold texts: the two ends of the range, one below, one above, no number.
ThresholdTexts ==
  {<<"5", "0">>, <<"9", "9", ".", "9">>, <<"4", "9", ".", "9">>, <<"1", "0", "0">>, <<"a">>}
TimerTexts == {<<"0">>, <<"1">>, <<"2">>, <<>>}
\* Keys pressed in the hex field: a hex digit and a sign, which is none.
HexKeys == {"1", "-"}
\* Positions a slider is dragged to: every position of the red slider, and
\* two of the green and of the blue one.
DragInputs ==
  {<<"r", v>> : v \in 0..255} \cup {<<"g", 0>>, <<"g", 15>>, <<"b", 0>>, <<"b", 10>>}

\* startNewRound that drops the records of the session, as if a round kept
\* no history.
startNewRoundClearsHistory(s, rnd) ==
  [s EXCEPT !.isResettingRef = TRUE,
            !.targetColor = rnd,
            !.userColor = Black,
            !.userColorSet = TRUE,
            !.hexInputValue = <<"#">>,
            !.lastScore = None,
            !.history = <<>>]

\* startNewRound that also resumes play.
startNewRoundResumes(s, rnd) ==
  [s EXCEPT !.isResettingRef = TRUE,
            !.targetColor = rnd,
            !.userColor = Black,
            !.userColorSet = TRUE,
            !.hexInputValue = <<"#">>,
            !.lastScore = None,
            !.gameState = "PLAYING"]

startNewRound(s, rnd) ==
  [s EXCEPT !.isResettingRef = TRUE,
            !.targetColor = rnd,
            !.userColor = Black,
            !.userColorSet = TRUE,
            !.hexInputValue = <<"#">>,
            !.lastScore = None]

\* startGame that leaves the countdown where the last session stopped it.
startGameKeepsTimeLeft(s, rnd) ==
  startNewRound([s EXCEPT !.score = 0,
                          !.history = <<>>,
                          !.hasLostFocus = FALSE,
                          !.gameState = "PLAYING"], rnd)

\* startGame that clears the timeouts left by the session before.
startGameCancelsResets(s, rnd) ==
  startNewRound([s EXCEPT !.score = 0,
                          !.history = <<>>,
                          !.hasLostFocus = FALSE,
                          !.timeLeft = s.timerDuration,
                          !.pendingResets = 0,
                          !.gameState = "PLAYING"], rnd)

\* startGame that carries the score into the new session.
startGameKeepsScore(s, rnd) ==
  startNewRound([s EXCEPT !.history = <<>>,
                          !.hasLostFocus = FALSE,
                          !.timeLeft = s.timerDuration,
                          !.gameState = "PLAYING"], rnd)

startGame(s, rnd) ==
  startNewRound([s EXCEPT !.score = 0,
                          !.history = <<>>,
                          !.hasLostFocus = FALSE,
                          !.timeLeft = s.timerDuration,
                          !.gameState = "PLAYING"], rnd)

\* handleSubmit that waits for the round reset of the submit before it.
handleSubmitOncePerRound(s) ==
  IF s.gameState # "PLAYING" \/ s.pendingResets > 0 THEN s
  ELSE LET rec == [target |-> s.targetColor, user |-> s.userColor]
           shown == Some(percentage(s.targetColor, s.userColor))
           h == [s EXCEPT !.history = Append(@, rec),
                          !.pendingResets = @ + 1]
       IN IF SimilarityExceeds(s.targetColor, s.userColor, s.scoreThreshold)
          THEN [h EXCEPT !.score = @ + 1,
                         !.lastScore = shown,
                         !.timeLeft = s.timerDuration]
          ELSE [h EXCEPT !.lastScore = shown]

\* handleSubmit without the test of gameState.
handleSubmitUnguarded(s) ==
  LET rec == [target |-> s.targetColor, user |-> s.userColor]
      shown == Some(percentage(s.targetColor, s.userColor))
      h == [s EXCEPT !.history = Append(@, rec),
                     !.pendingResets = @ + 1]
  IN IF SimilarityExceeds(s.targetColor, s.userColor, s.scoreThreshold)
     THEN [h EXCEPT !.score = @ + 1,
                    !.lastScore = shown,
                    !.timeLeft = s.timerDuration]
     ELSE [h EXCEPT !.lastScore = shown]

\* handleSubmit that scores at the threshold too.
handleSubmitAtLeast(s) ==
  IF s.gameState # "PLAYING" THEN s
  ELSE LET rec == [target |-> s.targetColor, user |-> s.userColor]
           shown == Some(percentage(s.targetColor, s.userColor))
           h == [s EXCEPT !.history = Append(@, rec),
                          !.pendingResets = @ + 1]
       IN IF SimilarityAtLeast(s.targetColor, s.userColor, s.scoreThreshold)
          THEN [h EXCEPT !.score = @ + 1,
                         !.lastScore = shown,
                         !.timeLeft = s.timerDuration]
          ELSE [h EXCEPT !.lastScore = shown]

\* handleSubmit that records successful rounds only.
handleSubmitNoFailureRecord(s) ==
  IF s.gameState # "PLAYING" THEN s
  ELSE LET rec == [target |-> s.targetColor, user |-> s.userColor]
           shown == Some(percentage(s.targetColor, s.userColor))
           h == [s EXCEPT !.pendingResets = @ + 1]
       IN IF SimilarityExceeds(s.targetColor, s.userColor, s.scoreThreshold)
          THEN [h EXCEPT !.history = Append(@, rec),
                         !.score = @ + 1,
                         !.lastScore = shown,
                         !.timeLeft = s.timerDuration]
          ELSE [h EXCEPT !.lastScore = shown]

handleSubmit(s) ==
  IF s.gameState # "PLAYING" THEN s
  ELSE LET rec == [target |-> s.targetColor, user |-> s.userColor]
           shown == Some(percentage(s.targetColor, s.userColor))
           h == [s EXCEPT !.history = Append(@, rec),
                          !.pendingResets = @ + 1]
       IN IF SimilarityExceeds(s.targetColor, s.userColor, s.scoreThreshold)
          THEN [h EXCEPT !.score = @ + 1,
                         !.lastScore = shown,
                         !.timeLeft = s.timerDuration]
          ELSE [h EXCEPT !.lastScore = shown]

\* The setInterval callback of the timer effect.
timerCallback(s) ==
  IF s.timeLeft <= 0
  THEN [s EXCEPT !.gameState = "GAME_OVER", !.timeLeft = 0]
  ELSE [s EXCEPT !.timeLeft = @ - 1]

\* handleBlur that ignores the game state.
handleBlurAnywhere(s) == [s EXCEPT !.hasLostFocus = TRUE]

handleBlur(s) ==
  IF s.gameState = "PLAYING" THEN [s EXCEPT !.hasLostFocus = TRUE] ELSE s

handleEndGame(s) ==
  IF s.gameState = "PLAYING" THEN [s EXCEPT !.gameState = "GAME_OVER"] ELSE s

handleSliderChange(s, channel, value) ==
  [s EXCEPT !.userColor = [@ EXCEPT ![channel] = value], !.userColorSet = TRUE]

\* handleHexChange that falls back to black on a text that is no colour.
handleHexChangeResets(s, val) ==
  LET rgb == hexToRgb(val)
      h == [s EXCEPT !.hexInputValue = val, !.userColorSet = TRUE]
  IN IF rgb # None THEN [h EXCEPT !.userColor = rgb[1]] ELSE [h EXCEPT !.userColor = Black]

handleHexChange(s, val) ==
  LET rgb == hexToRgb(val)
      h == [s EXCEPT !.hexInputValue = val]
  IN IF rgb # None THEN [h EXCEPT !.userColor = rgb[1], !.userColorSet = TRUE] ELSE h

handleOpenSettings(s) ==
  [s EXCEPT !.tempThreshold = FloatString(s.scoreThreshold), !.showSettings = TRUE]

\* handleCloseSettings that takes any number.
handleCloseSettingsAnyNumber(s) ==
  LET val == parseFloat(s.tempThreshold)
      h == [s EXCEPT !.showSettings = FALSE]
  IN IF ~isNaN(val) THEN [h EXCEPT !.scoreThreshold = val] ELSE h

handleCloseSettings(s) ==
  LET val == parseFloat(s.tempThreshold)
      h == [s EXCEPT !.showSettings = FALSE]
  IN IF ~isNaN(val) /\ val >= 500 /\ val <= 999
     THEN [h EXCEPT !.scoreThreshold = val]
     ELSE h

\* onBlur of the threshold input
thresholdOnBlur(s) ==
  LET val == parseFloat(s.tempThreshold)
  IN IF isNaN(val) \/ val < 500 \/ val > 999
     THEN [s EXCEPT !.tempThreshold = FloatString(s.scoreThreshold)]
     ELSE [s EXCEPT !.tempThreshold = FloatString(val)]

\* onChange of the timer duration input that keeps the duration when the
\* text is no number.
timerOnChangeKeepsPrior(s, text) ==
  LET n == parseInt(text, 10)
      val == IF n > 0 THEN n ELSE 0
      h == [s EXCEPT !.timerDuration = val]
  IN IF isNaN(n) THEN s
     ELSE IF s.gameState # "PLAYING" THEN [h EXCEPT !.timeLeft = val]
     ELSE IF val > 0 /\ s.timeLeft = 0 THEN [h EXCEPT !.timeLeft = val]
     ELSE h

\* onChange of the timer duration input
timerOnChange(s, text) ==
  LET n == parseInt(text, 10)
      m == IF isNaN(n) THEN 0 ELSE n
      val == IF m > 0 THEN m ELSE 0
      h == [s EXCEPT !.timerDuration = val]
  IN IF s.gameState # "PLAYING" THEN [h EXCEPT !.timeLeft = val]
     ELSE IF val > 0 /\ s.timeLeft = 0 THEN [h EXCEPT !.timeLeft = val]
     ELSE h

\* handleResetHighScore; confirmed is the answer to window.confirm.
handleResetHighScore(s, confirmed) ==
  IF confirmed
  THEN [s EXCEPT !.highScore = 0,
                 !.localStorage = [@ EXCEPT !["chroma_high_score"] = Some(<<"0">>)]]
  ELSE s

\* ---------------------------------------------------------- mounting
\* getItem(key) || fallback
OrElse(item, fallback) == IF item = None \/ item = Some(<<>>) THEN fallback ELSE item[1]

\* The useState initialisers, reading the storage found at load.
InitialState(stored) ==
  LET th == parseFloat(OrElse(stored["chroma_score_threshold"], <<"9", "0">>))
      td == parseInt(OrElse(stored["chroma_timer_duration"], <<"3", "0">>), 10)
      duration == IF isNaN(td) THEN 30 ELSE td
  IN [gameState |-> "MENU", score |-> 0, tempThreshold |-> <<>>,
      showSettings |-> FALSE,
      blindMode |-> (stored["chroma_blind_mode"] = Some(BoolString(TRUE))),
      strictMode |-> IF stored["chroma_strict_mode"] = None THEN TRUE
                     ELSE stored["chroma_strict_mode"] = Some(BoolString(TRUE)),
      scoreThreshold |-> IF isNaN(th) THEN 900 ELSE th,
      timerDuration |-> duration,
      timeLeft |-> duration,
      targetColor |-> Black, userColor |-> Black,
      hexInputValue |-> <<"#">>, isEditingHex |-> FALSE, isResettingRef |-> TRUE,
      highScore |-> parseInt(OrElse(stored["chroma_high_score"], <<"0">>), 10),
      history |-> <<>>, hasLostFocus |-> FALSE, lastScore |-> None,
      localStorage |-> stored, pendingResets |-> 0, timerActive |-> FALSE,
      userColorSet |-> FALSE]

\* The first render and its effects.
Mount(stored) == Render(InitialState(stored), InitialState(stored), TRUE)

EmptyStorage == [k \in StorageKeys |-> None]

\* Storage as an earlier run of the game leaves it.
UsedStorage ==
  [EmptyStorage EXCEPT !["chroma_blind_mode"] = Some(BoolString(FALSE)),
                       !["chroma_strict_mode"] = Some(BoolString(TRUE)),
                       !["chroma_score_threshold"] = Some(<<"8", "0">>),
                       !["chroma_timer_duration"] = Some(<<"2">>),
                       !["chroma_high_score"] = Some(<<"1">>)]

InitialStorages == {UsedStorage}

\* Storage as anything may have left it: under each key nothing, a text the
\* game writes, or a text it never writes.
LoadStorages ==
  {[k \in StorageKeys |->
      CASE k = "chroma_blind_mode" -> bm
        [] k = "chroma_strict_mode" -> sm
        [] k = "chroma_score_threshold" -> th
        [] k = "chroma_timer_duration" -> td
        [] k = "chroma_high_score" -> hs] :
     bm \in {None, Some(BoolString(TRUE))},
     sm \in {None, Some(BoolString(FALSE))},
     th \in {None, Some(<<"8", "0">>), Some(<<"1", "0">>), Some(<<"a">>)},
     td \in {None, Some(<<"2">>), Some(<<"-", "5">>), Some(<<"a">>)},
     hs \in {None, Some(<<"1">>), Some(<<"a">>)}}

\* ------------------------------------------------- the minimal variant
\* src/src/App.tsx: the same component without strict mode, threshold, history
\* and end-game button. Its state is one record, the value of variable minimal.
\* calculateStats, hexToRgb and rgbToHex are the same text in both files.

\* The three "Persist settings" effects of the minimal variant.
min_persistEffects(p, s, first, a) ==
  LET put(store, changed, key, text) ==
        IF first \/ changed THEN [store EXCEPT ![key] = Some(text)] ELSE store
      s1 == put(a.localStorage, p.blindMode # s.blindMode,
                "chroma_blind_mode", BoolString(s.blindMode))
      s2 == put(s1, p.timerDuration # s.timerDuration,
                "chroma_timer_duration", toString(s.timerDuration, 10))
      s3 == put(s2, p.highScore # s.highScore,
                "chroma_high_score", toString(s.highScore, 10))
  IN [a EXCEPT !.localStorage = s3]

\* "Update high score in real-time" of the minimal variant
min_highScoreEffect(p, s, first, a) ==
  IF /\ first \/ p.score # s.score \/ p.highScore # s.highScore
     /\ Gt(s.score, s.highScore)
  THEN [a EXCEPT !.highScore = s.score]
  ELSE a

\* "Sync hex input from userColor when not editing" of the minimal variant
min_hexSyncEffect(p, s, first, a) ==
  IF ~(first \/ s.userColorSet \/ p.isEditingHex # s.isEditingHex) THEN a
  ELSE IF a.isResettingRef THEN [a EXCEPT !.isResettingRef = FALSE]
  ELSE IF ~s.isEditingHex
  THEN [a EXCEPT !.hexInputValue = rgbToHex(s.userColor.r, s.userColor.g, s.userColor.b)]
  ELSE a

\* The timer effect of the minimal variant
min_timerEffect(p, s, first, a) ==
  IF ~(first \/ p.gameState # s.gameState \/ p.timeLeft # s.timeLeft
             \/ p.timerDuration # s.timerDuration) THEN a
  ELSE IF s.gameState = "PLAYING" /\ s.timeLeft > 0 /\ s.timerDuration > 0
  THEN [a EXCEPT !.timerActive = TRUE]
  ELSE IF s.timeLeft <= 0 /\ s.gameState = "PLAYING" /\ s.timerDuration > 0
  THEN [a EXCEPT !.timerActive = FALSE, !.gameState = "GAME_OVER"]
  ELSE [a EXCEPT !.timerActive = FALSE]

\* The effects of one render of the minimal variant, in the order the
\* component declares them.
min_Effects(p, s, first) ==
  LET a0 == [s EXCEPT !.userColorSet = FALSE]
      a1 == min_persistEffects(p, s, first, a0)
      a2 == min_highScoreEffect(p, s, first, a1)
      a3 == min_hexSyncEffect(p, s, first, a2)
  IN min_timerEffect(p, s, first, a3)

\* One render of s after the render of p in the minimal variant; the state
\* its effects set (a) is rendered in turn.
RECURSIVE min_Render(_, _, _)
min_Render(p, s, first) ==
  CHOOSE r \in {IF /\ a.highScore = s.highScore
                   /\ a.hexInputValue = s.hexInputValue
                   /\ a.gameState = s.gameState
                THEN a
                ELSE min_Render(s, a, FALSE) : a \in {min_Effects(p, s, first)}} : TRUE

min_startNewRound(s, rnd) ==
  [s EXCEPT !.isResettingRef = TRUE,
            !.targetColor = rnd,
            !.userColor = Black,
            !.userColorSet = TRUE,
            !.hexInputValue = <<"#">>,
            !.lastScore = None]

min_startGame(s, rnd) ==
  min_startNewRound([s EXCEPT !.score = 0,
                              !.timeLeft = s.timerDuration,
                              !.gameState = "PLAYING"], rnd)

\* handleSubmit of the minimal variant with success above 80%.
min_handleSubmitAbove80(s) ==
  IF s.gameState # "PLAYING" THEN s
  ELSE LET shown == Some(percentage(s.targetColor, s.userColor))
           h == [s EXCEPT !.pendingResets = @ + 1]
       IN IF SimilarityExceeds(s.targetColor, s.userColor, 800)
          THEN [h EXCEPT !.score = @ + 1,
                         !.lastScore = shown,
                         !.timeLeft = s.timerDuration]
          ELSE [h EXCEPT !.lastScore = shown]

\* handleSubmit of the minimal variant: success above 0.9 (900 tenths of a
\* percent).
min_handleSubmit(s) ==
  IF s.gameState # "PLAYING" THEN s
  ELSE LET shown == Some(percentage(s.targetColor, s.userColor))
           h == [s EXCEPT !.pendingResets = @ + 1]
       IN IF SimilarityExceeds(s.targetColor, s.userColor, 900)
          THEN [h EXCEPT !.score = @ + 1,
                         !.lastScore = shown,
                         !.timeLeft = s.timerDuration]
          ELSE [h EXCEPT !.lastScore = shown]

\* The setInterval callback of the minimal variant's timer effect.
min_timerCallback(s) ==
  IF s.timeLeft <= 0
  THEN [s EXCEPT !.gameState = "GAME_OVER", !.timeLeft = 0]
  ELSE [s EXCEPT !.timeLeft = @ - 1]

min_handleSliderChange(s, channel, value) ==
  [s EXCEPT !.userColor = [@ EXCEPT ![channel] = value], !.userColorSet = TRUE]

min_handleHexChange(s, val) ==
  LET rgb == hexToRgb(val)
      h == [s EXCEPT !.hexInputValue = val]
  IN IF rgb # None THEN [h EXCEPT !.userColor = rgb[1], !.userColorSet = TRUE] ELSE h

\* onChange of the minimal variant's timer duration input
min_timerOnChange(s, text) ==
  LET n == parseInt(text, 10)
      m == IF isNaN(n) THEN 0 ELSE n
      val == IF m > 0 THEN m ELSE 0
      h == [s EXCEPT !.timerDuration = val]
  IN IF s.gameState # "PLAYING" THEN [h EXCEPT !.timeLeft = val]
     ELSE IF val > 0 /\ s.timeLeft = 0 THEN [h EXCEPT !.timeLeft = val]
     ELSE h

\* onClick of the minimal variant's round button
min_roundButton(s, rnd) ==
  IF s.gameState = "MENU" \/ s.gameState = "GAME_OVER"
  THEN min_startGame(s, rnd)
  ELSE min_handleSubmit(s)

\* The useState initialisers of the minimal variant.
min_InitialState(stored) ==
  LET td == parseInt(OrElse(stored["chroma_timer_duration"], <<"3", "0">>), 10)
      duration == IF isNaN(td) THEN 30 ELSE td
  IN [gameState |-> "MENU", score |-> 0, showSettings |-> FALSE,
      blindMode |-> (stored["chroma_blind_mode"] = Some(BoolString(TRUE))),
      timerDuration |-> duration,
      timeLeft |-> duration,
      targetColor |-> Black, userColor |-> Black,
      hexInputValue |-> <<"#">>, isEditingHex |-> FALSE, isResettingRef |-> TRUE,
      highScore |-> parseInt(OrElse(stored["chroma_high_score"], <<"0">>), 10),
      lastScore |-> None,
      localStorage |-> stored, pendingResets |-> 0, timerActive |-> FALSE,
      userColorSet |-> FALSE]

min_Mount(stored) == min_Render(min_InitialState(stored), min_InitialState(stored), TRUE)

\* ------------------------------------------------------------ actions
Max(a, b) == IF a >= b THEN a ELSE b

\* Strict-mode semantics allow the score of state s to be committed.
CommitAllowed(s) == ~s.hasLostFocus \/ ~s.strictMode

\* The component's variables take the values of record s.
Commit(s) ==
  /\ gameState' = s.gameState
  /\ score' = s.score
  /\ tempThreshold' = s.tempThreshold
  /\ showSettings' = s.showSettings
  /\ blindMode' = s.blindMode
  /\ strictMode' = s.strictMode
  /\ scoreThreshold' = s.scoreThreshold
  /\ timerDuration' = s.timerDuration
  /\ timeLeft' = s.timeLeft
  /\ targetColor' = s.targetColor
  /\ userColor' = s.userColor
  /\ hexInputValue' = s.hexInputValue
  /\ isEditingHex' = s.isEditingHex
  /\ isResettingRef' = s.isResettingRef
  /\ highScore' = s.highScore
  /\ history' = s.history
  /\ hasLostFocus' = s.hasLostFocus
  /\ lastScore' = s.lastScore
  /\ localStorage' = s.localStorage
  /\ pendingResets' = s.pendingResets
  /\ timerActive' = s.timerActive

\* The best-score history variables after an event that settles in s.
Best(s, reset) ==
  LET now == IF CommitAllowed(s) THEN s.score ELSE 0
  IN /\ bestAllowed' = IF reset THEN now ELSE Max(bestAllowed, now)
     /\ bestAllowedEver' = Max(bestAllowedEver, now)

\* An event whose handler leaves h: React renders h and runs the effects.
React(h) ==
  \E s \in {Render(App, h, FALSE)} :
    Commit(s) /\ Best(s, FALSE) /\ UNCHANGED minimal

\* The same event reaches both variants: h is the full variant's handler
\* result, mh the minimal variant's.
ReactBoth(h, mh) ==
  \E s \in {Render(App, h, FALSE)}, m \in {mh} :
    Commit(s) /\ Best(s, FALSE) /\ minimal' = min_Render(minimal, m, FALSE)

\* The same for a confirmed reset of the high score.
ReactToReset(h) ==
  \E s \in {Render(App, h, FALSE)} :
    Commit(s) /\ Best(s, TRUE) /\ UNCHANGED minimal

\* The state once the page is loaded over the storage given.
Loaded(stored) ==
  LET s == Mount(stored)
  IN /\ gameState = s.gameState
     /\ score = s.score
     /\ tempThreshold = s.tempThreshold
     /\ showSettings = s.showSettings
     /\ blindMode = s.blindMode
     /\ strictMode = s.strictMode
     /\ scoreThreshold = s.scoreThreshold
     /\ timerDuration = s.timerDuration
     /\ timeLeft = s.timeLeft
     /\ targetColor = s.targetColor
     /\ userColor = s.userColor
     /\ hexInputValue = s.hexInputValue
     /\ isEditingHex = s.isEditingHex
     /\ isResettingRef = s.isResettingRef
     /\ highScore = s.highScore
     /\ history = s.history
     /\ hasLostFocus = s.hasLostFocus
     /\ lastScore = s.lastScore
     /\ localStorage = s.localStorage
     /\ pendingResets = s.pendingResets
     /\ timerActive = s.timerActive
     /\ minimal = min_Mount(stored)
     /\ submitCalls = 0
     /\ cleanTicks = None
     /\ strictLost = FALSE
     /\ bestAllowed = 0
     /\ bestAllowedEver = 0

Init == \E stored \in InitialStorages : Loaded(stored)

\* The page loaded over any storage.
InitLoad == \E stored \in LoadStorages : Loaded(stored)

\* The page is loaded again: the component mounts over the storage as it is.
Reload ==
  LET s == Mount(localStorage)
  IN /\ Commit(s)
     /\ Best(s, FALSE)
     /\ UNCHANGED minimal
     /\ submitCalls' = 0
     /\ cleanTicks' = None
     /\ strictLost' = FALSE

\* Click on the round button in MENU or GAME_OVER (onClick, line 532).
ClickStart ==
  /\ gameState \in {"MENU", "GAME_OVER"}
  /\ \E rnd \in RandomColors : React(startGame(App, rnd))
  /\ submitCalls' = 0
  /\ cleanTicks' = Some(0)
  /\ strictLost' = FALSE

\* Click on the round button while PLAYING, or Enter in the hex field.
Submit ==
  /\ gameState = "PLAYING"
  /\ Len(history) < MaxSubmits
  /\ pendingResets < MaxPending
  /\ React(handleSubmit(App))
  /\ submitCalls' = submitCalls + 1
  /\ cleanTicks' = IF score' # score THEN None ELSE cleanTicks
  /\ UNCHANGED strictLost

\* The delayed callback of a submit runs.
ResetTimeout ==
  /\ pendingResets > 0
  /\ \E rnd \in RandomColors :
       React(startNewRound([App EXCEPT !.pendingResets = @ - 1], rnd))
  /\ UNCHANGED <<submitCalls, cleanTicks, strictLost>>

\* The one-second interval fires.
Tick ==
  /\ timerActive
  /\ React(timerCallback(App))
  /\ cleanTicks' = IF cleanTicks = None THEN None ELSE Some(cleanTicks[1] + 1)
  /\ UNCHANGED <<submitCalls, strictLost>>

\* Click on the end-game button, rendered while PLAYING.
ClickEndGame ==
  /\ gameState = "PLAYING"
  /\ React(handleEndGame(App))
  /\ UNCHANGED <<submitCalls, cleanTicks, strictLost>>

\* handleSubmit called in MENU or GAME_OVER, where no control calls it: the
\* case of its first line.
SubmitOutOfPlay ==
  /\ gameState # "PLAYING"
  /\ pendingResets < MaxPending
  /\ React(handleSubmit(App))
  /\ UNCHANGED eventGhosts

\* handleEndGame called in MENU or GAME_OVER, where its button is not shown.
EndGameOutOfPlay ==
  /\ gameState # "PLAYING"
  /\ React(handleEndGame(App))
  /\ UNCHANGED eventGhosts

\* The window loses focus.
WindowBlur ==
  /\ React(handleBlur(App))
  /\ strictLost' = (strictLost \/ (gameState = "PLAYING" /\ strictMode))
  /\ UNCHANGED <<submitCalls, cleanTicks>>

\* A slider, enabled while PLAYING, moves to another value.
SliderChange ==
  /\ gameState = "PLAYING"
  /\ \E in \in SliderInputs :
       /\ userColor[in[1]] # in[2]
       /\ React(handleSliderChange(App, in[1], in[2]))
  /\ UNCHANGED eventGhosts


\* The hex field, enabled while PLAYING, takes the keyboard focus.
HexFocus ==
  /\ gameState = "PLAYING"
  /\ ~isEditingHex
  /\ React([App EXCEPT !.isEditingHex = TRUE])
  /\ UNCHANGED eventGhosts

\* The hex field loses the keyboard focus.
HexBlur ==
  /\ isEditingHex
  /\ React([App EXCEPT !.isEditingHex = FALSE])
  /\ UNCHANGED eventGhosts

\* The text of the focused hex field changes.
HexChange ==
  /\ gameState = "PLAYING"
  /\ isEditingHex
  /\ \E val \in HexTexts :
       /\ val # hexInputValue
       /\ React(handleHexChange(App, val))
  /\ UNCHANGED eventGhosts

\* A key adds a character to the text of the focused hex field (maxLength 7).
HexType ==
  /\ gameState = "PLAYING"
  /\ isEditingHex
  /\ Len(hexInputValue) < 7
  /\ \E c \in HexKeys : React(handleHexChange(App, Append(hexInputValue, c)))
  /\ UNCHANGED eventGhosts

\* Backspace removes the last character of the text of the focused hex field.
HexErase ==
  /\ gameState = "PLAYING"
  /\ isEditingHex
  /\ hexInputValue # <<>>
  /\ React(handleHexChange(App, SubSeq(hexInputValue, 1, Len(hexInputValue) - 1)))
  /\ UNCHANGED eventGhosts

\* A slider, enabled while PLAYING, is dragged to any of its positions.
SliderDrag ==
  /\ gameState = "PLAYING"
  /\ \E in \in DragInputs :
       /\ userColor[in[1]] # in[2]
       /\ React(handleSliderChange(App, in[1], in[2]))
  /\ UNCHANGED eventGhosts

OpenSettings ==
  /\ ~showSettings
  /\ React(handleOpenSettings(App))
  /\ UNCHANGED eventGhosts

CloseSettings ==
  /\ showSettings
  /\ React(handleCloseSettings(App))
  /\ UNCHANGED eventGhosts

ToggleBlindMode ==
  /\ showSettings
  /\ React([App EXCEPT !.blindMode = ~@])
  /\ UNCHANGED eventGhosts

ToggleStrictMode ==
  /\ showSettings
  /\ React([App EXCEPT !.strictMode = ~@])
  /\ UNCHANGED eventGhosts

\* The text of the threshold field changes.
ThresholdChange ==
  /\ showSettings
  /\ \E text \in ThresholdTexts :
       /\ text # tempThreshold
       /\ React([App EXCEPT !.tempThreshold = text])
  /\ UNCHANGED eventGhosts

\* The threshold field loses the keyboard focus.
ThresholdBlur ==
  /\ showSettings
  /\ React(thresholdOnBlur(App))
  /\ UNCHANGED eventGhosts

\* The text of the timer duration field changes.
TimerChange ==
  /\ showSettings
  /\ \E text \in TimerTexts :
       /\ text # toString(timerDuration, 10)
       /\ React(timerOnChange(App, text))
  /\ cleanTicks' = None
  /\ UNCHANGED <<submitCalls, strictLost>>

\* The timer duration field is emptied: its text is no number.
TimerClear ==
  /\ showSettings
  /\ React(timerOnChange(App, <<>>))
  /\ cleanTicks' = None
  /\ UNCHANGED <<submitCalls, strictLost>>

\* Click on the reset button, then confirm in the dialog.
ConfirmResetHighScore ==
  /\ showSettings
  /\ ReactToReset(handleResetHighScore(App, TRUE))
  /\ UNCHANGED eventGhosts

\* Click on the reset button, then cancel the dialog.
DeclineResetHighScore ==
  /\ showSettings
  /\ React(handleResetHighScore(App, FALSE))
  /\ UNCHANGED eventGhosts

\* ----------------------------------------- both variants, side by side
\* Storage that starts the full variant with threshold 90 and strict mode off.
PairStorage ==
  [UsedStorage EXCEPT !["chroma_strict_mode"] = Some(BoolString(FALSE)),
                      !["chroma_score_threshold"] = Some(<<"9", "0">>),
                      !["chroma_high_score"] = Some(<<"0">>)]

\* Both variants loaded over the same storage.
InitPair == Loaded(PairStorage)

\* Inputs of the side-by-side run: a shorter countdown and the empty timer
\* text (no countdown); a slider position that scores between 80% and 90%;
\* a hex text that scores above 90% and one that is no colour.
PairTimerTexts == {<<"1">>, <<>>}
PairSliderInputs == {<<"r", 51>>}
PairHexTexts == {<<"#", "3", "3", "3">>, <<"#", "3", "g", "3">>}


\* Each action below is one event reaching both variants, with the same
\* random draw; the minimal variant's controls follow its own state.

\* Click on the round button in MENU or GAME_OVER.
BothStart ==
  /\ gameState \in {"MENU", "GAME_OVER"}
  /\ \E rnd \in RandomColors :
       ReactBoth(startGame(App, rnd), min_roundButton(minimal, rnd))
  /\ submitCalls' = 0
  /\ cleanTicks' = Some(0)
  /\ strictLost' = FALSE

\* Click on the round button while PLAYING.
BothSubmit ==
  /\ gameState = "PLAYING"
  /\ Len(history) < MaxPairSubmits
  /\ pendingResets < MaxPending
  /\ \E rnd \in RandomColors :
       ReactBoth(handleSubmit(App), min_roundButton(minimal, rnd))
  /\ submitCalls' = submitCalls + 1
  /\ cleanTicks' = IF score' # score THEN None ELSE cleanTicks
  /\ UNCHANGED strictLost

\* The delayed callback of a submit runs in both variants.
BothResetTimeout ==
  /\ pendingResets > 0
  /\ \E rnd \in RandomColors :
       ReactBoth(startNewRound([App EXCEPT !.pendingResets = @ - 1], rnd),
                 IF minimal.pendingResets > 0
                 THEN min_startNewRound([minimal EXCEPT !.pendingResets = @ - 1], rnd)
                 ELSE minimal)
  /\ UNCHANGED eventGhosts

\* The one-second interval fires in both variants.
BothTick ==
  /\ timerActive
  /\ ReactBoth(timerCallback(App),
               IF minimal.timerActive THEN min_timerCallback(minimal) ELSE minimal)
  /\ cleanTicks' = IF cleanTicks = None THEN None ELSE Some(cleanTicks[1] + 1)
  /\ UNCHANGED <<submitCalls, strictLost>>

\* A slider, enabled while PLAYING, moves to another value.
BothSliderChange ==
  /\ gameState = "PLAYING"
  /\ \E in \in PairSliderInputs :
       /\ userColor[in[1]] # in[2]
       /\ ReactBoth(handleSliderChange(App, in[1], in[2]),
                    IF minimal.gameState = "PLAYING"
                    THEN min_handleSliderChange(minimal, in[1], in[2])
                    ELSE minimal)
  /\ UNCHANGED eventGhosts

\* The hex field, enabled while PLAYING, takes the keyboard focus.
BothHexFocus ==
  /\ gameState = "PLAYING"
  /\ ~isEditingHex
  /\ ReactBoth([App EXCEPT !.isEditingHex = TRUE],
               IF minimal.gameState = "PLAYING"
               THEN [minimal EXCEPT !.isEditingHex = TRUE]
               ELSE minimal)
  /\ UNCHANGED eventGhosts

\* The hex field loses the keyboard focus.
BothHexBlur ==
  /\ isEditingHex
  /\ ReactBoth([App EXCEPT !.isEditingHex = FALSE],
               [minimal EXCEPT !.isEditingHex = FALSE])
  /\ UNCHANGED eventGhosts

\* The text of the focused hex field changes.
BothHexChange ==
  /\ gameState = "PLAYING"
  /\ isEditingHex
  /\ \E val \in PairHexTexts :
       /\ val # hexInputValue
       /\ ReactBoth(handleHexChange(App, val),
                    IF minimal.gameState = "PLAYING" /\ minimal.isEditingHex
                    THEN min_handleHexChange(minimal, val)
                    ELSE minimal)
  /\ UNCHANGED eventGhosts

\* Click on the settings button.
BothOpenSettings ==
  /\ ~showSettings
  /\ ReactBoth(handleOpenSettings(App), [minimal EXCEPT !.showSettings = TRUE])
  /\ UNCHANGED eventGhosts

\* Click on the close button of the settings.
BothCloseSettings ==
  /\ showSettings
  /\ ReactBoth(handleCloseSettings(App), [minimal EXCEPT !.showSettings = FALSE])
  /\ UNCHANGED eventGhosts

\* The text of the timer duration field changes.
BothTimerChange ==
  /\ showSettings
  /\ \E text \in PairTimerTexts :
       /\ text # toString(timerDuration, 10)
       /\ ReactBoth(timerOnChange(App, text),
                    IF minimal.showSettings THEN min_timerOnChange(minimal, text)
                    ELSE minimal)
  /\ cleanTicks' = None
  /\ UNCHANGED <<submitCalls, strictLost>>

Next ==
  \/ Reload
  \/ ClickStart
  \/ Submit
  \/ ResetTimeout
  \/ Tick
  \/ ClickEndGame
  \/ SubmitOutOfPlay
  \/ EndGameOutOfPlay
  \/ WindowBlur
  \/ SliderChange
  \/ HexFocus
  \/ HexBlur
  \/ HexChange
  \/ HexType
  \/ HexErase
  \/ SliderDrag
  \/ OpenSettings
  \/ CloseSettings
  \/ ToggleBlindMode
  \/ ToggleStrictMode
  \/ ThresholdChange
  \/ ThresholdBlur
  \/ TimerChange
  \/ TimerClear
  \/ ConfirmResetHighScore
  \/ DeclineResetHighScore

Spec == Init /\ [][Next]_vars

\* The game session: rounds, the countdown, focus loss and the high score.
NextGame ==
  \/ ClickStart
  \/ Submit
  \/ ResetTimeout
  \/ Tick
  \/ ClickEndGame
  \/ WindowBlur
  \/ OpenSettings
  \/ CloseSettings
  \/ ToggleStrictMode
  \/ TimerChange
  \/ ConfirmResetHighScore
  \/ DeclineResetHighScore

SpecGame == Init /\ [][NextGame]_vars

\* The round engine: the user colour and its hex mirror.
NextRound ==
  \/ ClickStart
  \/ Submit
  \/ ResetTimeout
  \/ ClickEndGame
  \/ SliderChange
  \/ HexFocus
  \/ HexBlur
  \/ HexChange

SpecRound == Init /\ [][NextRound]_vars

\* The hex field under the keyboard: texts typed key by key.
NextHex ==
  \/ ClickStart
  \/ HexFocus
  \/ HexBlur
  \/ HexType
  \/ HexErase

SpecHex == Init /\ [][NextHex]_vars

\* The sliders dragged over their range, and the hex text made of the colour.
NextColor ==
  \/ ClickStart
  \/ ClickEndGame
  \/ SliderDrag

SpecColor == Init /\ [][NextColor]_vars

\* The settings panel, and the sessions that move the high score.
NextSettings ==
  \/ ClickStart
  \/ Submit
  \/ OpenSettings
  \/ CloseSettings
  \/ ToggleBlindMode
  \/ ToggleStrictMode
  \/ ThresholdChange
  \/ ThresholdBlur
  \/ TimerChange
  \/ TimerClear
  \/ ConfirmResetHighScore
  \/ DeclineResetHighScore

SpecSettings == Init /\ [][NextSettings]_vars

\* Loading: the page over any storage, the settings changed, loaded again.
NextLoad ==
  \/ Reload
  \/ OpenSettings
  \/ CloseSettings
  \/ ToggleBlindMode
  \/ ToggleStrictMode
  \/ TimerChange

SpecLoad == InitLoad /\ [][NextLoad]_vars

\* The session with its operations called in every game state.
NextGuards ==
  \/ ClickStart
  \/ Submit
  \/ ResetTimeout
  \/ Tick
  \/ ClickEndGame
  \/ SubmitOutOfPlay
  \/ EndGameOutOfPlay
  \/ SliderChange

SpecGuards == Init /\ [][NextGuards]_vars

\* Rounds and their delayed resets: the event loop runs a due setTimeout
\* callback, so the reset of a submit cannot wait forever.
NextReset ==
  \/ ClickStart
  \/ Submit
  \/ ResetTimeout
  \/ Tick
  \/ ClickEndGame
  \/ SliderChange

SpecReset == Init /\ [][NextReset]_vars

SpecResetFair == SpecReset /\ WF_vars(ResetTimeout)

\* Both variants under the same events: no end-game click, no strict mode,
\* no threshold edit.
NextPair ==
  \/ BothStart
  \/ BothSubmit
  \/ BothResetTimeout
  \/ BothTick
  \/ BothSliderChange
  \/ BothHexFocus
  \/ BothHexBlur
  \/ BothHexChange
  \/ BothOpenSettings
  \/ BothCloseSettings
  \/ BothTimerChange

SpecPair == InitPair /\ [][NextPair]_vars

\* ------------------------------------------------------------- claims
StoredHighScore == localStorage["chroma_high_score"]

\* C1: a submit while PLAYING whose similarity is strictly above
\* scoreThreshold / 100 adds exactly 1 to score and sets timeLeft to
\* timerDuration; a submit at or below the threshold changes neither.
C1_SubmitScoring ==
  [][submitCalls' = submitCalls + 1 =>
       IF SimilarityExceeds(targetColor, userColor, scoreThreshold)
       THEN score' = score + 1 /\ timeLeft' = timerDuration
       ELSE score' = score /\ timeLeft' = timeLeft]_vars

\* A session with a scoring submit and a failed one.
C1_Witness == gameState = "PLAYING" /\ score = 1 /\ submitCalls = 2

\* C2: the length of history is the number of submit calls of the session,
\* whether they scored or not.
C2_HistoryCountsSubmits == Len(history) = submitCalls

\* Two submits recorded, one of them a failure.
C2_Witness == Len(history) = 2 /\ score < 2

\* C3: MENU is initial; PLAYING is entered only by start; GAME_OVER is
\* entered only from PLAYING, by the timer or by endGame; GAME_OVER is left
\* only by start; MENU is never entered again.
C3_Lifecycle ==
  /\ gameState = "MENU"
  /\ [][/\ (gameState # "PLAYING" /\ gameState' = "PLAYING") => ClickStart
        /\ (gameState # "GAME_OVER" /\ gameState' = "GAME_OVER")
             => (gameState = "PLAYING" /\ (Tick \/ ClickEndGame))
        /\ gameState = "GAME_OVER"
             => (gameState' = "GAME_OVER" \/ (gameState' = "PLAYING" /\ ClickStart))
        /\ gameState' = "MENU" => gameState = "MENU"]_vars

\* A second session: the reset of a submit of the session before is pending.
C3_Witness == gameState = "PLAYING" /\ submitCalls = 0 /\ pendingResets > 0

\* C4: with timerDuration N > 0, after start and until a scoring submit or a
\* timer edit, every tick takes one second off timeLeft, the N-th tick ends
\* the game, and out of PLAYING no interval is left to change timeLeft.
C4_TimerExpiry ==
  /\ (cleanTicks # None /\ timerDuration > 0) =>
       /\ cleanTicks[1] <= timerDuration
       /\ gameState = "PLAYING" =>
            /\ cleanTicks[1] < timerDuration
            /\ timeLeft = timerDuration - cleanTicks[1]
            /\ timerActive
       /\ cleanTicks[1] = timerDuration => (gameState = "GAME_OVER" /\ timeLeft = 0)
  /\ gameState # "PLAYING" => ~timerActive

\* The timer ran out after N ticks.
C4_Witness ==
  gameState = "GAME_OVER" /\ timerDuration = 2 /\ cleanTicks = Some(2) /\ ~timerActive

\* C5: while timerDuration is 0 no interval runs, and the only step into
\* GAME_OVER is endGame.
C5_InfiniteMode ==
  /\ [](timerDuration = 0 => ~timerActive)
  /\ [][(timerDuration = 0 /\ timerDuration' = 0
           /\ gameState # "GAME_OVER" /\ gameState' = "GAME_OVER") => ClickEndGame]_vars

\* A session started in infinite mode and ended.
C5_Witness == timerDuration = 0 /\ gameState = "GAME_OVER" /\ cleanTicks = Some(0)

\* C6: in every settled state the score is committed (highScore >= score, and
\* highScore is the score that just passed it) when strict mode is off or
\* focus was kept; a score increase with strict mode on and focus lost changes
\* neither highScore nor its stored value.
C6_HighScoreRule ==
  /\ []((~hasLostFocus \/ ~strictMode) => highScore >= score)
  /\ [][/\ ((~hasLostFocus' \/ ~strictMode') /\ score' > highScore)
             => highScore' = score'
        /\ (score' > score /\ strictMode /\ hasLostFocus)
             => (highScore' = highScore /\ StoredHighScore' = StoredHighScore)]_vars

\* A higher score shown but not committed.
C6_Witness == strictMode /\ hasLostFocus /\ score > highScore

\* C7 as stated: once focus was lost with strict mode on and the score of the
\* session has passed the high score, the stored high score stays as it is
\* until the next start.
C7_StoredUntilStart ==
  [][(strictLost /\ strictLost' /\ score > highScore)
       => StoredHighScore' = StoredHighScore]_vars

\* C7 amended: once focus was lost with strict mode on, the stored high score
\* stays as it is until the next start over every step that keeps strict mode
\* on and is no confirmed reset of the high score.
C7_StoredWhileStrict ==
  [][(strictLost /\ strictLost' /\ strictMode /\ strictMode')
       => (StoredHighScore' = StoredHighScore \/ ConfirmResetHighScore)]_vars

\* The session is over with a score above the stored high score.
C7_Witness ==
  /\ strictLost /\ strictMode /\ gameState = "GAME_OVER"
  /\ StoredHighScore = Some(<<"1">>) /\ score = 2

\* C8 as stated: highScore is at least every committable score ever held.
C8_AtLeastEveryScore == highScore >= bestAllowedEver

\* C8 amended: highScore is at least every committable score held since the
\* last confirmed reset of the high score.
C8_AtLeastScoresSinceReset == highScore >= bestAllowed

\* After a reset, a committable score below an earlier one.
C8_Witness == bestAllowed > 0 /\ bestAllowed < bestAllowedEver

\* C9: the focus-loss flag is set only by a window blur while PLAYING and
\* cleared only by start.
C9_FocusFlagOneWay ==
  [][/\ (hasLostFocus /\ ~hasLostFocus') => ClickStart
     /\ (~hasLostFocus /\ hasLostFocus') => (gameState = "PLAYING" /\ WindowBlur)]_vars

\* The flag outlived the session and a change of strict mode.
C9_Witness == hasLostFocus /\ gameState = "GAME_OVER" /\ ~strictMode /\ score > 0

\* C10 as stated: out of editing, the hex text parses to the user colour.
C10_MirrorParses == ~isEditingHex => hexToRgb(hexInputValue) = Some(userColor)

\* C10 amended: out of editing, the hex text parses to the user colour, or it
\* is the "#" of a round not yet touched, with the user colour black.
C10_MirrorParsesOrFresh ==
  ~isEditingHex =>
     \/ hexToRgb(hexInputValue) = Some(userColor)
     \/ (hexInputValue = <<"#">> /\ userColor = Black)

\* Out of editing with a colour entered as hex text.
C10_Witness == ~isEditingHex /\ userColor = Grey /\ hexInputValue # <<"#">>

\* C11: while PLAYING, timeLeft lies between 0 and timerDuration.
C11_TimeLeftInRange ==
  gameState = "PLAYING" => (0 <= timeLeft /\ timeLeft <= timerDuration)

\* Every channel of colour c is an integer from 0 to 255.
InRange(c) == \A ch \in {"r", "g", "b"} : c[ch] \in 0..255

\* C12: every channel of userColor and of targetColor is an integer from 0 to
\* 255, whatever the sliders and the hex field were given.
C12_ChannelsInRange == InRange(userColor) /\ InRange(targetColor)

\* C13: a hex text is rejected when what is left of it, the first "#" removed
\* and trimmed, has a length other than 3 or 6 or holds a character that is no
\* hex digit.
C13_RejectsNonHex ==
  LET clean == trim(replaceFirst(hexInputValue, "#"))
  IN (\/ Len(clean) \notin {3, 6}
      \/ \E i \in 1..Len(clean) : DigitValue(clean[i]) = 16)
       => hexToRgb(hexInputValue) = None

\* C14: the hex text of a colour with channels from 0 to 255 is "#" and six
\* upper-case hex digits, two for each channel, and parses back to the colour.
C14_RoundTrip ==
  LET hex == rgbToHex(userColor.r, userColor.g, userColor.b)
      hi(x) == UpperDigits[(x \div 16) + 1]
      lo(x) == UpperDigits[(x % 16) + 1]
  IN InRange(userColor) =>
       /\ hex = <<"#", hi(userColor.r), lo(userColor.r), hi(userColor.g),
                  lo(userColor.g), hi(userColor.b), lo(userColor.b)>>
       /\ hexToRgb(hex) = Some(userColor)

\* A colour with letters and one-digit channels, shown in the hex field.
C14_Witness ==
  /\ userColor = Color(171, 15, 10)
  /\ ~isEditingHex
  /\ hexInputValue = <<"#", "A", "B", "0", "F", "0", "A">>

\* C15: start, from MENU or from GAME_OVER, leaves PLAYING with score 0, an
\* empty history, the focus flag cleared, timeLeft at the configured
\* timerDuration, and a fresh round: a target newly drawn, the user colour
\* black, the hex text "#", no last outcome.
C15_StartResets ==
  [][ClickStart =>
       /\ gameState' = "PLAYING"
       /\ score' = 0
       /\ history' = <<>>
       /\ ~hasLostFocus'
       /\ timerDuration' = timerDuration
       /\ timeLeft' = timerDuration
       /\ targetColor' \in RandomColors
       /\ userColor' = Black
       /\ hexInputValue' = <<"#">>
       /\ lastScore' = None]_vars

\* Started again after a session that scored, a delayed reset still pending.
C15_Witness ==
  /\ gameState = "PLAYING" /\ cleanTicks = Some(0) /\ submitCalls = 0
  /\ bestAllowedEver > 0 /\ pendingResets > 0 /\ timeLeft = timerDuration

\* C16: after start, the delayed reset of a submit of the session before does
\* not touch the round that start began: no submit of the new session being
\* made yet, the callback leaves the target, the user colour and the hex text.
C16_StaleResetSuperseded ==
  [][(ResetTimeout /\ gameState = "PLAYING" /\ submitCalls = 0)
       => /\ targetColor' = targetColor
          /\ userColor' = userColor
          /\ hexInputValue' = hexInputValue]_vars

\* C17: a confirmed reset settles with highScore 0 and "0" stored;
\* a declined one changes neither.
C17_ResetToZero ==
  [][/\ ConfirmResetHighScore => (highScore' = 0 /\ StoredHighScore' = Some(<<"0">>))
     /\ DeclineResetHighScore
          => (highScore' = highScore /\ StoredHighScore' = StoredHighScore)]_vars

StoredThreshold == localStorage["chroma_score_threshold"]

\* The number the threshold text parses to, and whether it is from 50 to 99.9.
TypedThreshold == parseFloat(tempThreshold)
TypedThresholdValid ==
  TypedThreshold # NaN /\ 500 <= TypedThreshold /\ TypedThreshold <= 999

\* C18: closing the settings sets scoreThreshold to the number the threshold
\* text parses to when that number is from 50 to 99.9; with any other text
\* scoreThreshold and its stored value stay and the game goes on as it was;
\* nothing else changes scoreThreshold.
C18_ThresholdValidation ==
  [][/\ (CloseSettings /\ TypedThresholdValid)
          => /\ scoreThreshold' = TypedThreshold
             /\ StoredThreshold' = Some(FloatString(TypedThreshold))
     /\ (CloseSettings /\ ~TypedThresholdValid)
          => /\ scoreThreshold' = scoreThreshold
             /\ StoredThreshold' = StoredThreshold
             /\ gameState' = gameState
     /\ scoreThreshold' # scoreThreshold => (CloseSettings /\ TypedThresholdValid)]_vars

\* The settings were closed on a text above the range, after 99.9 was taken.
C18_Witness ==
  ~showSettings /\ tempThreshold = <<"1", "0", "0">> /\ scoreThreshold = 999

\* C20: in every settled state the text stored under each of the five keys
\* is the text of the value in memory.
C20_WriteThrough ==
  /\ localStorage["chroma_blind_mode"] = Some(BoolString(blindMode))
  /\ localStorage["chroma_strict_mode"] = Some(BoolString(strictMode))
  /\ StoredThreshold = Some(FloatString(scoreThreshold))
  /\ localStorage["chroma_timer_duration"] = Some(toString(timerDuration, 10))
  /\ StoredHighScore = Some(toString(highScore, 10))

\* Each of the five values was changed since the load.
C20_Witness ==
  /\ blindMode /\ ~strictMode /\ scoreThreshold = 999
  /\ timerDuration = 1 /\ highScore = 2

\* The values a load may leave: a threshold from 50 to 99.9, a timer duration
\* and a high score that are integers of 0 or more.
LoadValid ==
  /\ scoreThreshold \in 500..999
  /\ timerDuration \in Nat
  /\ highScore \in Nat

\* C19: whatever the storage holds at load, the state after the load has a
\* threshold from 50 to 99.9, a timer duration of 0 or more and a high score
\* of 0 or more; so has the state after every later load.
C19_LoadValidates == LoadValid /\ [][Reload => LoadValid']_vars

\* C21: a submit appends to history one record, the target and the user
\* colour of that moment; every other step but start leaves history as it
\* is; start empties it.
C21_HistoryAppendOnly ==
  [][/\ submitCalls' = submitCalls + 1
          => history' = Append(history, [target |-> targetColor, user |-> userColor])
     /\ ClickStart => history' = <<>>
     /\ (submitCalls' # submitCalls + 1 /\ ~ClickStart) => history' = history]_vars

\* Two records of one session that differ, the later one of a colour entered.
C21_Witness ==
  /\ Len(history) = 2 /\ history[1] # history[2]
  /\ history[2].user # Black /\ pendingResets = 0

White == Color(255, 255, 255)

\* C22: the similarity of a colour to itself is 1 (above every threshold
\* below 100, shown as "100.0%"), that of black to white is 0 (above no
\* threshold, shown as "0.0%"), and every similarity lies from 0 to 1: it is
\* never above 100 percent and every outcome shown is from 0 to 100.
C22_SimilarityRange ==
  /\ ~SimilarityExceeds(targetColor, userColor, 1000)
  /\ lastScore # None => parseFloat(lastScore[1]) \in 0..1000
  /\ targetColor = userColor =>
       /\ SimilarityExceeds(targetColor, userColor, 999)
       /\ percentage(targetColor, userColor) = <<"1", "0", "0", ".", "0", "%">>
  /\ ~SimilarityExceeds(Black, White, 0)
  /\ ~SimilarityExceeds(White, Black, 0)
  /\ percentage(Black, White) = <<"0", ".", "0", "%">>

\* The target was matched exactly and the submit shown as 100.0%.
C22_Witness ==
  /\ targetColor = userColor /\ targetColor = Grey
  /\ lastScore = Some(<<"1", "0", "0", ".", "0", "%">>) /\ score = 1

\* C23: a round reset, by start or by the delayed callback, editing or not,
\* settles with the user colour black, the hex text "#" and no last outcome;
\* the suppress flag is used up by then (no settled state has it set), so that
\* the next change of the user colour out of editing writes the hex text.
C23_ResetSuppressesOnce ==
  /\ []~isResettingRef
  /\ [][/\ (ClickStart \/ ResetTimeout)
             => (userColor' = Black /\ hexInputValue' = <<"#">> /\ lastScore' = None)
        /\ (SliderChange /\ ~isEditingHex)
             => hexInputValue' = rgbToHex(userColor'.r, userColor'.g, userColor'.b)]_vars

\* The delayed reset ran while the hex field had the focus.
C23_Witness ==
  /\ isEditingHex /\ hexInputValue = <<"#">> /\ userColor = Black
  /\ submitCalls > 0 /\ lastScore = None /\ gameState = "PLAYING"

\* The variables of the component other than the hex text and the user colour.
exceptHexAndColor ==
  <<gameState, score, tempThreshold, showSettings, blindMode, strictMode,
    scoreThreshold, timerDuration, timeLeft, targetColor, isEditingHex,
    isResettingRef, highScore, history, hasLostFocus, lastScore, localStorage,
    pendingResets, timerActive>>

\* The texts a key or Backspace makes of the hex text.
TypedOver(text) ==
  {Append(text, c) : c \in HexKeys}
  \cup (IF text = <<>> THEN {} ELSE {SubSeq(text, 1, Len(text) - 1)})

\* C24: a change of the hex text leaves the text as typed; the user colour
\* becomes the colour the text parses to, and stays as it was when the text
\* parses to none; nothing else changes.
C24_HexTextVerbatim ==
  [][(HexType \/ HexErase) =>
       /\ hexInputValue' \in TypedOver(hexInputValue)
       /\ userColor' = IF hexToRgb(hexInputValue') = None
                       THEN userColor ELSE hexToRgb(hexInputValue')[1]
       /\ exceptHexAndColor' = exceptHexAndColor]_vars

\* A text that is no colour, over a colour typed before it.
C24_Witness ==
  /\ isEditingHex /\ Len(hexInputValue) = 6
  /\ hexToRgb(hexInputValue) = None /\ userColor = Color(17, 17, 17)

\* The hex text made of the user colour.
UserHex == rgbToHex(userColor.r, userColor.g, userColor.b)

\* C25: while the hex field has the focus a slider leaves the hex text alone
\* and a text typed stays as typed, valid or not; when the field loses the
\* focus the text becomes the hex text of the user colour; out of focus every
\* slider change makes it the hex text of the new colour.
C25_EditingSuspendsSync ==
  [][/\ (SliderChange /\ isEditingHex) => hexInputValue' = hexInputValue
     /\ HexChange => hexInputValue' \in HexTexts
     /\ HexBlur => (hexInputValue' = UserHex /\ userColor' = userColor)
     /\ (SliderChange /\ ~isEditingHex) => hexInputValue' = UserHex']_vars

\* In focus, a slider moved under a text that is no colour.
C25_Witness ==
  /\ isEditingHex /\ hexInputValue = <<"#", "3", "g", "3">>
  /\ userColor = Color(51, 0, 0)

\* C26: a submit made while the round reset of an earlier submit is pending
\* goes through: it records the target and user colour as they are, scores by
\* the same rule, and leaves one more reset pending.
C26_StaleSubmit ==
  [][(submitCalls' = submitCalls + 1 /\ pendingResets > 0) =>
       /\ gameState' = "PLAYING"
       /\ history' = Append(history, [target |-> targetColor, user |-> userColor])
       /\ score' = IF SimilarityExceeds(targetColor, userColor, scoreThreshold)
                   THEN score + 1 ELSE score
       /\ pendingResets' = pendingResets + 1]_vars

\* One round scored twice: two equal records, two resets pending.
C26_Witness ==
  /\ score = 2 /\ Len(history) = 2 /\ history[1] = history[2]
  /\ pendingResets = 2 /\ targetColor = history[1].target

StoredTimerDuration == localStorage["chroma_timer_duration"]

\* C27 as stated: a timer duration text that is no number leaves timerDuration
\* and its stored value as they were, and the game as it was.
C27_NonNumericRejected ==
  [][TimerClear => /\ timerDuration' = timerDuration
                   /\ StoredTimerDuration' = StoredTimerDuration
                   /\ gameState' = gameState]_vars

\* C27 amended: a timer duration text that is no number counts as 0:
\* timerDuration becomes 0 and "0" is stored, no interval runs, and the game
\* stays as it was.
C27_NonNumericIsZero ==
  [][TimerClear => /\ timerDuration' = 0
                   /\ StoredTimerDuration' = Some(<<"0">>)
                   /\ ~timerActive'
                   /\ gameState' = gameState]_vars

\* The countdown was switched off during play.
C27_Witness ==
  /\ gameState = "PLAYING" /\ timerDuration = 0 /\ timeLeft = 2
  /\ StoredTimerDuration = Some(<<"0">>) /\ showSettings

\* C28 as stated: out of PLAYING only start changes timeLeft.
C28_FrozenButForStart ==
  [][(gameState # "PLAYING" /\ timeLeft' # timeLeft) => ClickStart]_vars

\* C28 amended: out of PLAYING timeLeft changes only by start and by an edit
\* of the timer duration, which sets it to the new duration.
C28_FrozenButForStartAndEdit ==
  [][(gameState # "PLAYING" /\ timeLeft' # timeLeft)
       => \/ ClickStart
          \/ ((TimerChange \/ TimerClear) /\ timeLeft' = timerDuration')]_vars

\* Before any session, the duration was edited and timeLeft went with it.
C28_Witness == gameState = "MENU" /\ timeLeft = 1 /\ timerDuration = 1

\* What a submit or an end of the game may touch.
sessionVars ==
  <<gameState, score, history, timeLeft, lastScore, highScore, targetColor,
    userColor, pendingResets>>

\* C29: submit and endGame called in MENU or GAME_OVER change nothing of the
\* session and schedule no reset; endGame while PLAYING sets GAME_OVER and
\* leaves score, history and timeLeft.
C29_NoOpsOutOfPlay ==
  [][/\ (SubmitOutOfPlay \/ EndGameOutOfPlay) => sessionVars' = sessionVars
     /\ ClickEndGame => /\ gameState' = "GAME_OVER"
                        /\ score' = score
                        /\ history' = history
                        /\ timeLeft' = timeLeft]_vars

\* A session ended early, with its score, records and time left in place.
C29_Witness ==
  /\ gameState = "GAME_OVER" /\ score = 1 /\ Len(history) = 1
  /\ timeLeft = 2 /\ userColor # Black

\* The values the two variants are compared on.
observed ==
  <<gameState, score, timeLeft, timerDuration, highScore, targetColor,
    userColor, hexInputValue, lastScore>>

min_observed ==
  <<minimal.gameState, minimal.score, minimal.timeLeft, minimal.timerDuration,
    minimal.highScore, minimal.targetColor, minimal.userColor,
    minimal.hexInputValue, minimal.lastScore>>

\* C30: the minimal variant agrees with the full variant run with threshold
\* 90, strict mode off and no end-game click: after every sequence of start,
\* submit, tick, delayed reset, slider, hex text, focus, blur and timer
\* setting events with the same random draws, both hold the same gameState,
\* score, timeLeft, timerDuration, highScore, targetColor, userColor, hex
\* mirror and last outcome.
C30_MinimalAgrees ==
  /\ scoreThreshold = 900
  /\ ~strictMode
  /\ min_observed = observed

\* Both variants ran out of time after a scoring round that set a record.
C30_Witness ==
  /\ minimal.gameState = "GAME_OVER"
  /\ minimal.score = 1
  /\ minimal.highScore = 1
  /\ minimal.timeLeft = 0
  /\ minimal.timerDuration = 1
  /\ minimal.pendingResets = 0

\* C31: the score never exceeds the number of records in the history: the
\* score rises only by one and only in a step that appends a record, and
\* start sets the score to 0 and empties the history together.
C31_ScoreWithinHistory ==
  /\ [](score <= Len(history))
  /\ [][/\ score' > score =>
             /\ score' = score + 1
             /\ history' = Append(history, [target |-> targetColor, user |-> userColor])
        /\ score' < score => (score' = 0 /\ history' = <<>>)
        /\ ClickStart => (score' = 0 /\ history' = <<>>)]_vars

\* Every submit of the session scored: the score equals the number of records.
C31_Witness ==
  /\ score = 2 /\ Len(history) = 2 /\ highScore = 2 /\ gameState = "GAME_OVER"

\* C32: every submit accepted while PLAYING is followed by exactly one round
\* reset: the submit adds one pending callback, only a run of the callback
\* takes one away (none is cancelled), and a pending callback does run, in
\* GAME_OVER as in PLAYING; its run draws a target, sets the user colour to
\* black, the hex mirror to '#' and the last outcome to null.
C32_SubmitThenOneReset ==
  /\ [][/\ submitCalls' = submitCalls + 1 => pendingResets' = pendingResets + 1
        /\ pendingResets' > pendingResets => submitCalls' = submitCalls + 1
        /\ pendingResets' < pendingResets => ResetTimeout
        /\ ResetTimeout =>
             /\ pendingResets' = pendingResets - 1
             /\ targetColor' \in RandomColors
             /\ userColor' = Black
             /\ hexInputValue' = <<"#">>
             /\ lastScore' = None
             /\ gameState' = gameState]_vars
  /\ []<>(pendingResets = 0) \/ []<><<pendingResets' < pendingResets>>_vars

\* After two submits and an early end of the session one reset has run and
\* the other is still due.
C32_Witness ==
  /\ gameState = "GAME_OVER" /\ submitCalls = 2 /\ pendingResets = 1
  /\ lastScore = None /\ userColor = Black /\ hexInputValue = <<"#">>
  /\ history[2].user # Black


====
